---------------------------- MODULE Spec2Model ----------------------------
(***************************************************************************)
(* Model of Script/extract_dominant_frequencies.py: the four dominant-     *)
(* frequency estimators, the chunking driver, output naming and main.      *)
(*                                                                         *)
(* Numbers.  Samples are small integers.  A frequency is an exact rational *)
(* [ok, num, den] in lowest terms; ValueError is the outcome of a call     *)
(* that raises.  "chunk - mean" is carried scaled by the chunk length      *)
(* (L*chunk[i] - sum), which leaves every argmax and sign test unchanged.  *)
(* Spectral magnitudes are compared through their squares, which are exact *)
(* integers for the chunk lengths 1, 2, 3, 4 and 6 (2*cos is an integer    *)
(* there); the window sizes of the model keep every chunk in that range.   *)
(***************************************************************************)
EXTENDS Integers, Sequences, FiniteSets, TLC

VARIABLES
    pc,                 \* position of the running program (main or a direct call)
    audio_data,         \* extract_dominant_frequencies: the signal (first channel)
    samplerate,         \* its sample rate
    samples_per_group,  \* window size W
    algorithm,          \* algorithm name
    func,               \* the estimator the driver resolved (line 96)
    chunk_idx,          \* iterations of the chunk loop taken so far (line 97)
    frequencies,        \* the result list being built
    est_chunk,          \* a direct estimator call: its chunk
    est_result,         \* and what the call produced
    settings_exists,    \* os.path.isfile("settings.json")
    settings,           \* the content of settings.json
    listing,            \* os.listdir('.'), in the order the system gives
    audio_files,        \* main: result of get_audio_files()
    files_to_process,   \* main: the selected files
    file_idx,           \* main: files of the loop at line 194 already handled
    output_exists,      \* os.path.isdir("output")
    fs,                 \* the files of the output folder: name -> content
    stages,             \* history: the kinds of work the run has started
    log,                \* history: one entry per process_file call that ended
    ppc,                \* per process: position inside lines 151-157
    audio_path,         \* per process: the file process_file works on
    base_name,          \* per process: line 151
    naf_n,              \* per process: next_available_filename's counter n
    output_path         \* per process: the name next_available_filename returned

driver_vars == << audio_data, samplerate, samples_per_group, algorithm, func,
                  chunk_idx, frequencies, est_chunk, est_result >>

main_vars == << settings_exists, settings, listing, audio_files,
                files_to_process, file_idx, output_exists, stages, log >>

naming_vars == << ppc, audio_path, base_name, naf_n, output_path >>

vars == << pc, driver_vars, main_vars, fs, naming_vars >>

---------------------------------------------------------------------------
(* Bounds and input sets *)

MaxSamples == 5

Amplitudes == {-1, 0, 1}

SampleRates == {500, 1000, 3000}

WindowSizes == {2, 3, 4}

Signals == UNION { [1..n -> Amplitudes] : n \in 0..MaxSamples }

---------------------------------------------------------------------------
(* Arithmetic helpers *)

Min(a, b) == IF a < b THEN a ELSE b

Abs(a) == IF a < 0 THEN -a ELSE a

RECURSIVE GCD(_, _)
GCD(a, b) == IF b = 0 THEN a ELSE GCD(b, a % b)

RECURSIVE SeqSum(_)
SeqSum(s) == IF s = << >> THEN 0 ELSE Head(s) + SeqSum(Tail(s))

\* The float num/den, den > 0, as an exact rational in lowest terms.
Frac(num, den) ==
    LET g == GCD(Abs(num), den)
    IN  [ok |-> TRUE, num |-> num \div g, den |-> den \div g]

\* The literal 0.0 every estimator returns as its sentinel.
Zero == [ok |-> TRUE, num |-> 0, den |-> 1]

\* np.argmax of an empty sequence (line 80) raises ValueError.
ValueError == [ok |-> FALSE, num |-> 0, den |-> 1]

\* np.argmax: the 0-based index of the first maximum of a non-empty sequence.
ArgMax(s) ==
    (CHOOSE i \in 1..Len(s) :
        /\ \A j \in 1..Len(s) : s[j] <= s[i]
        /\ \A j \in 1..(i - 1) : s[j] < s[i]) - 1

\* Python's seq[start:end] for 0 <= start: the bounds are clipped to the length.
Slice(s, start, end) == SubSeq(s, start + 1, Min(end, Len(s)))

\* chunk - np.mean(chunk), times len(chunk).
Centered(chunk) ==
    [i \in 1..Len(chunk) |-> Len(chunk) * chunk[i] - SeqSum(chunk)]

\* 2*cos(2*pi*j/L) for the lengths where it is an integer.
TwiceCos(j, L) ==
    CASE L = 1 -> 2
      [] L = 2 -> IF j % 2 = 0 THEN 2 ELSE -2
      [] L = 3 -> IF j % 3 = 0 THEN 2 ELSE -1
      [] L = 4 -> << 2, 0, -2, 0 >>[(j % 4) + 1]
      [] L = 6 -> << 2, 1, -1, -2, -1, 1 >>[(j % 6) + 1]

\* 2*|Y_k|^2 for the DFT Y of y: sum over a, b of y[a]*y[b]*2cos(2*pi*k*(a-b)/L).
TwicePower(y, k) ==
    LET L == Len(y)
    IN  SeqSum([a \in 1..L |->
            SeqSum([b \in 1..L |->
                y[a] * y[b] * TwiceCos((k * (a - b + L)) % L, L)])])

---------------------------------------------------------------------------
(* The estimators, lines 32-84.  Each gives the set of outcomes of a call. *)

dominant_frequency_fft(chunk, rate) ==
    IF Len(chunk) < 2 THEN {Zero}
    ELSE LET L == Len(chunk)
             y == Centered(chunk)
             \* np.abs(np.fft.rfft(chunk)): bins 0 .. L div 2
             magnitudes == [k \in 1..((L \div 2) + 1) |-> TwicePower(y, k - 1)]
             peak_idx == ArgMax(magnitudes)
         IN  \* rfftfreq(L, 1/rate)[k] = k*rate/L
             {Frac(peak_idx * rate, L)}

dominant_frequency_autocorrelation(chunk, rate) ==
    IF Len(chunk) < 2 THEN {Zero}
    ELSE LET L == Len(chunk)
             y == Centered(chunk)
             \* np.correlate(y, y, 'full')[len//2:]: lags 0 .. L-1
             autocorr == [l \in 1..L |->
                             SeqSum([i \in 1..(L - l + 1) |-> y[i] * y[i + l - 1]])]
             d == [i \in 1..(L - 1) |-> autocorr[i + 1] - autocorr[i]]
             rising == {i \in 1..(L - 1) : d[i] > 0}
         IN  IF rising = {} THEN {Zero}
             ELSE LET start == (CHOOSE i \in rising : \A j \in rising : i <= j) - 1
                      peak == ArgMax(SubSeq(autocorr, start + 1, L)) + start
                  IN  IF peak = 0 THEN {Zero} ELSE {Frac(rate, peak)}

Sign(x) == IF x > 0 THEN 1 ELSE IF x < 0 THEN -1 ELSE 0

dominant_frequency_zcr(chunk, rate) ==
    IF Len(chunk) < 2 THEN {Zero}
    ELSE LET L == Len(chunk)
             \* np.where(np.diff(np.sign(chunk)))[0], 0-based positions
             zero_crossings == {i \in 0..(L - 2) : Sign(chunk[i + 2]) - Sign(chunk[i + 1]) # 0}
         IN  IF Cardinality(zero_crossings) < 2 THEN {Zero}
             ELSE LET first == CHOOSE i \in zero_crossings : \A j \in zero_crossings : i <= j
                      last == CHOOSE i \in zero_crossings : \A j \in zero_crossings : j <= i
                      \* avg_period = (last - first) / (count - 1)
                      span == last - first
                  IN  IF span = 0 THEN {Zero}
                      ELSE {Frac(rate * (Cardinality(zero_crossings) - 1), span)}

\* The indices np.argmax(cepstrum[min_quefrency:]) + min_quefrency can give for a
\* chunk of length L > min_quefrency.  When the centred chunk is all zero every
\* spectral bin is 0, log_spectrum is the constant ln(1e-10) < 0 and its inverse
\* transform is exactly [ln(1e-10), 0, ..., 0]: index 0 holds the only negative
\* entry.  Otherwise the peak depends on logarithms of the magnitudes and is left
\* open: any index of the searched range.
CepstrumPeaks(chunk, min_quefrency) ==
    LET L == Len(chunk)
        y == Centered(chunk)
    IN  IF \A i \in 1..L : y[i] = 0
        THEN {IF min_quefrency = 0 THEN 1 ELSE min_quefrency}
        ELSE min_quefrency..(L - 1)

dominant_frequency_cepstrum(chunk, rate) ==
    IF Len(chunk) < 2 THEN {Zero}
    ELSE LET L == Len(chunk)
             min_quefrency == rate \div 1000
         IN  IF min_quefrency >= L
             THEN {ValueError}      \* argmax of the empty slice cepstrum[min_quefrency:]
             ELSE { IF peak = 0 THEN Zero ELSE Frac(rate, peak) :
                        peak \in CepstrumPeaks(chunk, min_quefrency) }

ALGORITHM_FUNCTIONS ==
    [fft |-> "dominant_frequency_fft",
     autocorrelation |-> "dominant_frequency_autocorrelation",
     zcr |-> "dominant_frequency_zcr",
     cepstrum |-> "dominant_frequency_cepstrum"]

\* Calling the function object f on (chunk, rate).
Apply(f, chunk, rate) ==
    CASE f = "dominant_frequency_fft" -> dominant_frequency_fft(chunk, rate)
      [] f = "dominant_frequency_autocorrelation" ->
             dominant_frequency_autocorrelation(chunk, rate)
      [] f = "dominant_frequency_zcr" -> dominant_frequency_zcr(chunk, rate)
      [] f = "dominant_frequency_cepstrum" -> dominant_frequency_cepstrum(chunk, rate)

---------------------------------------------------------------------------
(* extract_dominant_frequencies, lines 93-104 *)

\* ALGORITHM_FUNCTIONS.get(algorithm, dominant_frequency_fft), line 96.
ResolveFunc(name) ==
    IF name \in DOMAIN ALGORITHM_FUNCTIONS
    THEN ALGORITHM_FUNCTIONS[name]
    ELSE "dominant_frequency_fft"

\* The values range(start, stop, step) yields, step > 0 (line 97).
RECURSIVE RangeStarts(_, _, _)
RangeStarts(start, stop, step) ==
    IF start < stop
    THEN << start >> \o RangeStarts(start + step, stop, step)
    ELSE << >>

\* Line 98 without the clipping of the end to the signal length.
ChunkRange_NoClip(start, num_samples, W) == << start, start + W >>

\* [start, end) of the chunk that begins at start (line 98).
ChunkRange(start, num_samples, W) == << start, Min(start + W, num_samples) >>

\* The ranges the chunk loop walks through, in order.
ChunkRanges(num_samples, W) ==
    LET starts == RangeStarts(0, num_samples, W)
    IN  [i \in 1..Len(starts) |-> ChunkRange(starts[i], num_samples, W)]

\* Lines 94-96.
ExtractBegin ==
    /\ pc = "extract_call"
    /\ frequencies' = << >>
    /\ func' = ResolveFunc(algorithm)
    /\ chunk_idx' = 0
    /\ pc' = "extract_loop"
    /\ UNCHANGED << audio_data, samplerate, samples_per_group, algorithm,
                    est_chunk, est_result, main_vars, fs, naming_vars >>

\* One iteration of the loop, lines 97-103.  An exception of the estimator
\* leaves the function: nothing in the file catches it.
ExtractChunk ==
    /\ pc = "extract_loop"
    /\ chunk_idx < Len(ChunkRanges(Len(audio_data), samples_per_group))
    /\ LET r == ChunkRanges(Len(audio_data), samples_per_group)[chunk_idx + 1]
           chunk == Slice(audio_data, r[1], r[2])
       IN  IF Len(chunk) = 0
           THEN /\ chunk_idx' = chunk_idx + 1
                /\ UNCHANGED << pc, frequencies, stages >>
           ELSE \E freq \in Apply(func, chunk, samplerate) :
                 /\ stages' = stages \cup {"estimate"}
                 /\ IF freq.ok
                    THEN /\ frequencies' = Append(frequencies, freq)
                         /\ chunk_idx' = chunk_idx + 1
                         /\ pc' = pc
                    ELSE /\ pc' = "raised"
                         /\ UNCHANGED << frequencies, chunk_idx >>
    /\ UNCHANGED << audio_data, samplerate, samples_per_group, algorithm, func,
                    est_chunk, est_result, log, fs, naming_vars >>
    /\ UNCHANGED << settings_exists, settings, listing, audio_files,
                    files_to_process, file_idx, output_exists >>

\* Line 104.
ExtractReturn ==
    /\ pc = "extract_loop"
    /\ chunk_idx = Len(ChunkRanges(Len(audio_data), samples_per_group))
    /\ pc' = "extract_returned"
    /\ UNCHANGED << driver_vars, main_vars, fs, naming_vars >>

\* A direct call of one of the four estimators on the first m samples.
EstimatorCall ==
    /\ pc = "extract_call"
    /\ algorithm \in DOMAIN ALGORITHM_FUNCTIONS
    /\ \E m \in {0, 1} \cup WindowSizes :
          /\ m <= Len(audio_data)
          /\ est_chunk' = Slice(audio_data, 0, m)
          /\ est_result' \in Apply(ALGORITHM_FUNCTIONS[algorithm],
                                   Slice(audio_data, 0, m), samplerate)
    /\ pc' = "est_done"
    /\ UNCHANGED << audio_data, samplerate, samples_per_group, algorithm, func,
                    chunk_idx, frequencies, main_vars, fs, naming_vars >>

---------------------------------------------------------------------------
(* Files, settings and the output folder *)

SUPPORTED_EXTENSIONS == {".wav", ".flac", ".ogg", ".aiff"}

\* samples_per_group when settings.json does not give it (line 170).
DefaultSamplesPerGroup == 1024

\* str.lower() on the strings the model uses.
Lower(s) ==
    LET lowered == [ZCR |-> "zcr"] @@ (".FLAC" :> ".flac")
    IN  IF s \in DOMAIN lowered THEN lowered[s] ELSE s

\* dict.get(key, default)
Get(dict, key, default) == IF key \in DOMAIN dict THEN dict[key] ELSE default

\* Directory entries: the name is base \o ext, as os.path.splitext splits it.
Entry(base, ext, isfile) == [base |-> base, ext |-> ext, isfile |-> isfile]

ToneWav == Entry("tone", ".wav", TRUE)

ToneFlac == Entry("tone", ".FLAC", TRUE)

Tone1Ogg == Entry("tone1", ".ogg", TRUE)

NotesTxt == Entry("notes", ".txt", TRUE)

DirWav == Entry("takes", ".wav", FALSE)

\* What os.listdir('.') may return.
Listings ==
    { << >>,
      << NotesTxt, DirWav >>,
      << ToneWav >>,
      << NotesTxt, ToneFlac >>,
      << ToneWav, ToneFlac >>,
      << ToneFlac, DirWav, ToneWav >>,
      << ToneWav, Tone1Ogg >>,
      << ToneWav, Tone1Ogg, ToneFlac >> }

\* What settings.json may hold.
SettingsFiles ==
    { spg @@ alg :
        spg \in {<< >>} \cup {[samples_per_group |-> w] : w \in {0, 1, 2, 3}},
        alg \in {<< >>} \cup {[algorithm |-> a] :
                     a \in {"autocorrelation", "ZCR", "cepstrum", "spectral_peak"}} }

\* What sf.read may decode: (first channel of the data, sample rate).
AudioContents ==
    { [data |-> << >>, samplerate |-> 1000],
      [data |-> << 0, 0, 0, 0 >>, samplerate |-> 1000],
      [data |-> << 1, -1, 1, -1 >>, samplerate |-> 500],
      [data |-> << 1, 0, -1 >>, samplerate |-> 3000] }

\* The content of a file left by an earlier run.
Prior == [source |-> "earlier run", algorithm |-> "", lines |-> << >>]

\* The output folder before the run: absent, or holding some earlier results.
OutputFolders ==
    { [exists |-> FALSE, names |-> {}] } \cup
    { [exists |-> TRUE, names |-> ns] :
        ns \in { {}, {"tone.txt"}, {"tone1.txt"}, {"tone.txt", "tone1.txt"} } }

\* f"{freq:.2f}" as a count of hundredths: freq rounded to two decimals
\* (to the even neighbour on an exact tie).
Format2(freq) ==
    LET q == (100 * freq.num) \div freq.den
        r == (100 * freq.num) % freq.den
    IN  IF 2 * r < freq.den THEN q
        ELSE IF 2 * r > freq.den THEN q + 1
        ELSE IF q % 2 = 0 THEN q ELSE q + 1

Procs == {1, 2}

---------------------------------------------------------------------------
(* next_available_filename and the writing half of process_file, lines     *)
(* 131-140 and 151-157, one step per file-system call                      *)

\* os.path.exists(os.path.join(folder, name))
Exists(name) == name \in DOMAIN fs

\* Lines 132-135: the plain name, returned if free.
NafFirst(p) ==
    /\ ppc[p] = "naf_first"
    /\ LET candidate == base_name[p] \o ".txt"
       IN  IF ~Exists(candidate)
           THEN /\ output_path' = [output_path EXCEPT ![p] = candidate]
                /\ ppc' = [ppc EXCEPT ![p] = "open"]
                /\ naf_n' = naf_n
           ELSE /\ naf_n' = [naf_n EXCEPT ![p] = 1]
                /\ ppc' = [ppc EXCEPT ![p] = "naf_loop"]
                /\ output_path' = output_path
    /\ UNCHANGED << pc, driver_vars, main_vars, fs, audio_path, base_name >>

\* Lines 136-140 without the test of line 138: the first numbered name is taken.
NafLoop_Unchecked(p) ==
    /\ ppc[p] = "naf_loop"
    /\ output_path' = [output_path EXCEPT
                          ![p] = base_name[p] \o ToString(naf_n[p]) \o ".txt"]
    /\ ppc' = [ppc EXCEPT ![p] = "open"]
    /\ UNCHANGED << pc, driver_vars, main_vars, fs, audio_path, base_name, naf_n >>

\* Lines 136-140: one turn of the while loop.
NafLoop(p) ==
    /\ ppc[p] = "naf_loop"
    /\ LET candidate == base_name[p] \o ToString(naf_n[p]) \o ".txt"
       IN  IF ~Exists(candidate)
           THEN /\ output_path' = [output_path EXCEPT ![p] = candidate]
                /\ ppc' = [ppc EXCEPT ![p] = "open"]
                /\ naf_n' = naf_n
           ELSE /\ naf_n' = [naf_n EXCEPT ![p] = naf_n[p] + 1]
                /\ UNCHANGED << ppc, output_path >>
    /\ UNCHANGED << pc, driver_vars, main_vars, fs, audio_path, base_name >>

\* Lines 153-156: open(output_path, 'w') creates or truncates the file, then
\* the header and one line per frequency are written.
OpenWrite(p) ==
    /\ ppc[p] = "open"
    /\ fs' = [q \in DOMAIN fs \cup {output_path[p]} |->
                IF q = output_path[p]
                THEN [source |-> audio_path[p].base \o audio_path[p].ext,
                      algorithm |-> algorithm,
                      lines |-> [i \in 1..Len(frequencies) |-> Format2(frequencies[i])]]
                ELSE fs[q]]
    /\ ppc' = [ppc EXCEPT ![p] = "written"]
    /\ stages' = stages \cup {"write"}
    /\ UNCHANGED << pc, driver_vars, settings_exists, settings, listing, audio_files,
                    files_to_process, file_idx, output_exists, log,
                    audio_path, base_name, naf_n, output_path >>

---------------------------------------------------------------------------
(* main, lines 159-195, and process_file, lines 142-157 *)

NoEntry == Entry("", "", FALSE)

IdleNaming ==
    /\ ppc = [p \in Procs |-> "idle"]
    /\ audio_path = [p \in Procs |-> NoEntry]
    /\ base_name = [p \in Procs |-> ""]
    /\ naf_n = [p \in Procs |-> 0]
    /\ output_path = [p \in Procs |-> ""]

NoDriver ==
    /\ audio_data = << >>
    /\ samplerate = 0
    /\ func = "none"
    /\ chunk_idx = 0
    /\ frequencies = << >>
    /\ est_chunk = << >>
    /\ est_result = Zero

Init ==
    /\ pc = "main"
    /\ settings_exists \in BOOLEAN
    /\ settings \in SettingsFiles
    /\ listing \in Listings
    /\ \E o \in OutputFolders :
          /\ output_exists = o.exists
          /\ fs = [q \in o.names |-> Prior]
    /\ audio_files = << >>
    /\ files_to_process = << >>
    /\ file_idx = 0
    /\ stages = {}
    /\ log = << >>
    /\ samples_per_group = 0
    /\ algorithm = ""
    /\ NoDriver
    /\ IdleNaming

\* Lines 164-166.
MainCheckSettings ==
    /\ pc = "main"
    /\ pc' = IF settings_exists THEN "load_settings" ELSE "exit_1"
    /\ UNCHANGED << driver_vars, main_vars, fs, naming_vars >>

\* Lines 169-171.
MainLoadSettings ==
    /\ pc = "load_settings"
    /\ samples_per_group' = Get(settings, "samples_per_group", DefaultSamplesPerGroup)
    /\ algorithm' = Lower(Get(settings, "algorithm", "fft"))
    /\ pc' = "validate_window"
    /\ UNCHANGED << audio_data, samplerate, func, chunk_idx, frequencies,
                    est_chunk, est_result, main_vars, fs, naming_vars >>

\* Line 173 with the threshold off by one.
WindowTooSmall_OffByOne(w) == w < 1

\* The test of line 173.
WindowTooSmall(w) == w < 2

\* Lines 173-175.
MainValidateWindow ==
    /\ pc = "validate_window"
    /\ pc' = IF WindowTooSmall(samples_per_group) THEN "exit_1" ELSE "validate_algorithm"
    /\ UNCHANGED << driver_vars, main_vars, fs, naming_vars >>

\* Lines 177-179.
MainValidateAlgorithm ==
    /\ pc = "validate_algorithm"
    /\ pc' = IF algorithm \notin DOMAIN ALGORITHM_FUNCTIONS THEN "exit_1" ELSE "get_audio_files"
    /\ UNCHANGED << driver_vars, main_vars, fs, naming_vars >>

\* get_audio_files, lines 106-112.
get_audio_files ==
    SelectSeq(listing, LAMBDA e : Lower(e.ext) \in SUPPORTED_EXTENSIONS /\ e.isfile)

\* Lines 181-184.
MainGetAudioFiles ==
    /\ pc = "get_audio_files"
    /\ audio_files' = get_audio_files
    /\ stages' = stages \cup {"enumerate"}
    /\ pc' = IF get_audio_files = << >> THEN "exit_1" ELSE "select"
    /\ UNCHANGED << driver_vars, settings_exists, settings, listing,
                    files_to_process, file_idx, output_exists, log, fs, naming_vars >>

\* Lines 186-190; choose_files (lines 114-125) returns every file on 'a' and the
\* one file on a valid number, and asks again, changing nothing, on anything else.
MainSelect ==
    /\ pc = "select"
    /\ IF Len(audio_files) = 1
       THEN files_to_process' = audio_files
       ELSE \/ files_to_process' = audio_files
            \/ \E choice \in 0..(Len(audio_files) - 1) :
                  files_to_process' = << audio_files[choice + 1] >>
    /\ pc' = "ensure_output_folder"
    /\ UNCHANGED << driver_vars, settings_exists, settings, listing, audio_files,
                    file_idx, output_exists, stages, log, fs, naming_vars >>

\* Line 192 and ensure_output_folder, lines 127-129.
MainEnsureOutputFolder ==
    /\ pc = "ensure_output_folder"
    /\ output_exists' = TRUE
    /\ stages' = IF output_exists THEN stages ELSE stages \cup {"makedirs"}
    /\ pc' = "loop"
    /\ UNCHANGED << driver_vars, settings_exists, settings, listing, audio_files,
                    files_to_process, file_idx, log, fs, naming_vars >>

\* Line 194: the next file of the loop, or the end of main.
MainLoop ==
    /\ pc = "loop"
    /\ IF file_idx < Len(files_to_process)
       THEN /\ audio_path' = [audio_path EXCEPT ![1] = files_to_process[file_idx + 1]]
            /\ pc' = "process_file"
       ELSE /\ pc' = "done"
            /\ UNCHANGED audio_path
    /\ UNCHANGED << driver_vars, main_vars, fs, ppc, base_name, naf_n, output_path >>

\* Lines 143-150: sf.read either raises, which is printed and ends the call, or
\* gives the data, of which the first channel is kept, and the sample rate.
ProcessFileRead ==
    /\ pc = "process_file"
    /\ stages' = stages \cup {"decode"}
    /\ \/ /\ log' = Append(log, [file |-> audio_path[1], outcome |-> "read_error",
                                 path |-> ""])
          /\ file_idx' = file_idx + 1
          /\ pc' = "loop"
          /\ UNCHANGED << audio_data, samplerate >>
       \/ \E a \in AudioContents :
             /\ audio_data' = a.data
             /\ samplerate' = a.samplerate
             /\ pc' = "extract_call"
             /\ UNCHANGED << log, file_idx >>
    /\ UNCHANGED << samples_per_group, algorithm, func, chunk_idx, frequencies,
                    est_chunk, est_result, settings_exists, settings, listing,
                    audio_files, files_to_process, output_exists, fs, naming_vars >>

\* Lines 151-152: the base name, and the call of next_available_filename.
ProcessFileBaseName ==
    /\ pc = "extract_returned"
    /\ base_name' = [base_name EXCEPT ![1] = audio_path[1].base]
    /\ ppc' = [ppc EXCEPT ![1] = "naf_first"]
    /\ pc' = "naming"
    /\ UNCHANGED << driver_vars, main_vars, fs, audio_path, naf_n, output_path >>

\* Line 157 and the return to the loop of line 194; the locals of the call die.
ProcessFileReturn ==
    /\ pc = "naming"
    /\ ppc[1] = "written"
    /\ log' = Append(log, [file |-> audio_path[1], outcome |-> "processed",
                           path |-> output_path[1]])
    /\ file_idx' = file_idx + 1
    /\ pc' = "loop"
    /\ audio_data' = << >>
    /\ samplerate' = 0
    /\ func' = "none"
    /\ chunk_idx' = 0
    /\ frequencies' = << >>
    /\ ppc' = [ppc EXCEPT ![1] = "idle"]
    /\ audio_path' = [audio_path EXCEPT ![1] = NoEntry]
    /\ base_name' = [base_name EXCEPT ![1] = ""]
    /\ naf_n' = [naf_n EXCEPT ![1] = 0]
    /\ output_path' = [output_path EXCEPT ![1] = ""]
    /\ UNCHANGED << samples_per_group, algorithm, est_chunk, est_result,
                    settings_exists, settings, listing, audio_files,
                    files_to_process, output_exists, stages, fs >>

Next ==
    \/ MainCheckSettings
    \/ MainLoadSettings
    \/ MainValidateWindow
    \/ MainValidateAlgorithm
    \/ MainGetAudioFiles
    \/ MainSelect
    \/ MainEnsureOutputFolder
    \/ MainLoop
    \/ ProcessFileRead
    \/ ExtractBegin
    \/ ExtractChunk
    \/ ExtractReturn
    \/ ProcessFileBaseName
    \/ NafFirst(1)
    \/ NafLoop(1)
    \/ OpenWrite(1)
    \/ ProcessFileReturn

\* One run of main, single-threaded as the script is.
Spec == Init /\ [][Next]_vars

---------------------------------------------------------------------------
(* Direct calls of the driver and of the estimators *)

NoMain ==
    /\ settings_exists = FALSE
    /\ settings = << >>
    /\ listing = << >>
    /\ audio_files = << >>
    /\ files_to_process = << >>
    /\ file_idx = 0
    /\ output_exists = FALSE
    /\ fs = << >>
    /\ stages = {}
    /\ log = << >>

InitDriver ==
    /\ pc = "extract_call"
    /\ audio_data \in Signals
    /\ samplerate \in SampleRates
    /\ samples_per_group \in WindowSizes
    /\ algorithm \in DOMAIN ALGORITHM_FUNCTIONS \cup {"spectral_peak"}
    /\ func = "none"
    /\ chunk_idx = 0
    /\ frequencies = << >>
    /\ est_chunk = << >>
    /\ est_result = Zero
    /\ NoMain
    /\ IdleNaming

NextDriver == ExtractBegin \/ ExtractChunk \/ ExtractReturn \/ EstimatorCall

\* A caller that invokes extract_dominant_frequencies, or one estimator, itself.
SpecDriver == InitDriver /\ [][NextDriver]_vars

---------------------------------------------------------------------------
(* Two runs of the script writing into the same output folder at once *)

InitConc ==
    /\ pc = "naming"
    /\ \E o \in OutputFolders :
          /\ o.exists
          /\ output_exists = TRUE
          /\ fs = [q \in o.names |-> Prior]
    /\ audio_path \in [Procs -> {ToneWav, ToneFlac}]
    /\ base_name = [p \in Procs |-> audio_path[p].base]
    /\ ppc = [p \in Procs |-> "naf_first"]
    /\ naf_n = [p \in Procs |-> 0]
    /\ output_path = [p \in Procs |-> ""]
    /\ settings_exists = TRUE
    /\ settings = << >>
    /\ listing = << >>
    /\ audio_files = << >>
    /\ files_to_process = << >>
    /\ file_idx = 0
    /\ stages = {}
    /\ log = << >>
    /\ samples_per_group = DefaultSamplesPerGroup
    /\ algorithm = "fft"
    /\ NoDriver

NextConc == \E p \in Procs : NafFirst(p) \/ NafLoop(p) \/ OpenWrite(p)

\* Each process is past line 150 of its own process_file call, with an empty
\* result; the steps of the two interleave freely.
SpecConc == InitConc /\ [][NextConc]_vars


---------------------------------------------------------------------------
(* Properties *)

CeilDiv(a, b) == (a + b - 1) \div b

RECURSIVE Concat(_)
Concat(ss) == IF ss = << >> THEN << >> ELSE Head(ss) \o Concat(Tail(ss))

KnownAlgorithm == algorithm \in DOMAIN ALGORITHM_FUNCTIONS

\* The chunk the i-th range of the loop selects.
ChunkAt(i) ==
    LET r == ChunkRanges(Len(audio_data), samples_per_group)[i]
    IN  SubSeq(audio_data, r[1] + 1, r[2])

\* C1: called with a name that is none of the four known ones, the driver
\* processes no chunk and produces no estimate.
C1_UnknownNameProcessesNothing ==
    ~KnownAlgorithm => chunk_idx = 0 /\ frequencies = << >>

\* C2: every call of one of the four estimators, on a chunk of any length and
\* content at any sample rate, returns a value and never raises.
C2_EstimatorsTotal ==
    pc = "est_done" => est_result.ok

\* C3: whatever one of the four estimators returns for an all-zero chunk of
\* length >= 2 is exactly 0.0.
C3_SilenceGivesZero ==
    ( /\ pc = "est_done"
      /\ Len(est_chunk) >= 2
      /\ \A i \in 1..Len(est_chunk) : est_chunk[i] = 0
      /\ est_result.ok )
    => est_result = Zero

\* C4: for a signal of length N and a window W >= 2 the chunk loop walks
\* ceil(N/W) half-open ranges (none when N = 0), consecutive from 0, without
\* overlap, each non-empty and at most W long, only the last one possibly
\* shorter than W, ending at N; the chunks concatenated give the signal back;
\* and the loop ends only after it has taken every range.
C4_ChunksTileSignal ==
    LET N == Len(audio_data)
        W == samples_per_group
        R == ChunkRanges(N, W)
    IN  /\ Len(R) = CeilDiv(N, W)
        /\ N = 0 => R = << >>
        /\ \A i \in 1..Len(R) :
              /\ R[i][1] < R[i][2]
              /\ R[i][2] - R[i][1] <= W
              /\ i = 1 => R[i][1] = 0
              /\ i < Len(R) => R[i][2] - R[i][1] = W /\ R[i + 1][1] = R[i][2]
              /\ i = Len(R) => R[i][2] = N
        /\ Concat([i \in 1..Len(R) |-> SubSeq(audio_data, R[i][1] + 1, R[i][2])])
              = audio_data
        /\ chunk_idx <= Len(R)
        /\ pc = "extract_returned" => chunk_idx = Len(R)

\* C4 (witness): the loop has finished on a signal of several chunks whose
\* last chunk is shorter than the window.
C4_Witness ==
    /\ pc = "extract_returned"
    /\ Len(audio_data) > samples_per_group
    /\ Len(audio_data) % samples_per_group # 0
    /\ chunk_idx = CeilDiv(Len(audio_data), samples_per_group)

\* C5: for every signal, window and known algorithm, a call of the driver ends
\* by returning a list with one entry per chunk, in chunk order, the i-th being
\* the selected estimator's value for the i-th chunk.
C5_OneEstimatePerChunk ==
    (KnownAlgorithm /\ pc \in {"extract_returned", "raised"}) =>
        /\ pc = "extract_returned"
        /\ Len(frequencies) = CeilDiv(Len(audio_data), samples_per_group)
        /\ \A i \in 1..Len(frequencies) :
              frequencies[i] \in
                  Apply(ALGORITHM_FUNCTIONS[algorithm], ChunkAt(i), samplerate)

\* C9: each of the four estimators returns 0.0 for a chunk of fewer than two
\* samples, and so a call of the driver on a signal with N mod W = 1 ends by
\* returning a list whose last entry is 0.0, for every known algorithm.
C9_ShortChunkGivesZero ==
    /\ (pc = "est_done" /\ Len(est_chunk) < 2) => est_result = Zero
    /\ ( /\ KnownAlgorithm
         /\ pc \in {"extract_returned", "raised"}
         /\ Len(audio_data) % samples_per_group = 1 )
       => /\ pc = "extract_returned"
          /\ frequencies # << >>
          /\ frequencies[Len(frequencies)] = Zero

\* The name the naming scheme promises for base when the names in existing
\* are taken: base.txt if free, else baseK.txt for the least free K >= 1.
PromisedName(base, existing) ==
    IF base \o ".txt" \notin existing
    THEN base \o ".txt"
    ELSE LET K == CHOOSE k \in 1..(Cardinality(existing) + 1) :
                     /\ base \o ToString(k) \o ".txt" \notin existing
                     /\ \A j \in 1..(k - 1) : base \o ToString(j) \o ".txt" \in existing
         IN  base \o ToString(K) \o ".txt"

\* C6: in a run of main every step leaves each file of the output folder in
\* place with its content, and a step that writes creates exactly one file,
\* whose name did not exist and is the promised one for the base name.
C6_NeverOverwrites ==
    [][ /\ \A q \in DOMAIN fs : q \in DOMAIN fs' /\ fs'[q] = fs[q]
        /\ fs' # fs =>
              /\ PromisedName(base_name[1], DOMAIN fs) \notin DOMAIN fs
              /\ DOMAIN fs' = DOMAIN fs \cup {PromisedName(base_name[1], DOMAIN fs)}
      ]_vars

\* C6 (witness): tone.txt and tone1.txt were there before the run, the run wrote
\* tone.wav's result to tone2.txt, and both earlier files are untouched.
C6_Witness ==
    /\ DOMAIN fs = {"tone.txt", "tone1.txt", "tone2.txt"}
    /\ fs["tone.txt"] = Prior
    /\ fs["tone1.txt"] = Prior
    /\ fs["tone2.txt"].source = "tone.wav"

\* C7: when a run of main that selected files has ended, it ended normally and
\* every selected file was handled, in list order: reported as unreadable with
\* no artifact, or written to its own artifact.
C7_EveryFileHandled ==
    (pc \in {"done", "raised"}) =>
        /\ pc = "done"
        /\ Len(log) = Len(files_to_process)
        /\ \A i \in 1..Len(log) :
              /\ log[i].file = files_to_process[i]
              /\ log[i].outcome = "processed" =>
                    /\ log[i].path \in DOMAIN fs
                    /\ fs[log[i].path].source = log[i].file.base \o log[i].file.ext

\* C8: in a run whose settings file is missing or whose samples_per_group is
\* below 2, no file is enumerated or decoded, the output folder is not created,
\* no chunk is estimated and nothing is written; the run only gets as far as
\* the validation and then exits with status 1.
C8_InvalidWindowAbortsFirst ==
    ( \/ ~settings_exists
      \/ Get(settings, "samples_per_group", DefaultSamplesPerGroup) < 2 )
    => /\ stages = {}
       /\ log = << >>
       /\ audio_files = << >>
       /\ pc \in {"main", "load_settings", "validate_window", "exit_1"}

\* C8 (witness): a run with settings.json present and samples_per_group = 1 has
\* been stopped by the validation.
C8_Witness ==
    /\ pc = "exit_1"
    /\ settings_exists
    /\ Get(settings, "samples_per_group", DefaultSamplesPerGroup) = 1
    /\ samples_per_group = 1

\* C10: two processes that have both written their output never wrote it to
\* the same name.
C10_NamesClaimedOnce ==
    \A p, q \in Procs :
        (p # q /\ ppc[p] = "written" /\ ppc[q] = "written")
        => output_path[p] # output_path[q]

=============================================================================
